---- MODULE Spec2Model ----
(***************************************************************************)
(* A model of the 1-on-1 basketball simulator: player_enhancer.py          *)
(* (enhance_player_data) and basketball_sim.py (BasketballSimulator).      *)
(*                                                                         *)
(* Numbers.  Python floats are modelled in fixed point: the real x is the  *)
(* integer x * Scale (Scale = 10000), and a product or quotient is cut to  *)
(* that grid.  Heights in inches and scores are plain integers.            *)
(*                                                                         *)
(* Strings.  Names are atomic strings.  The two strings the code takes     *)
(* apart ('height', split around the quote; 'position', searched with      *)
(* `in`) are sequences of one-character strings.  An event text is the     *)
(* sequence of the fragments of its f-string; a phrase drawn from a fixed  *)
(* pool of wordings is the pool's tag.                                     *)
(*                                                                         *)
(* Randomness.  random.random() is a value of Draws; the random source of  *)
(* simulate_full_game is a stream that is fixed as it is first read        *)
(* (rng_stream) and read again from its start by a later call, as a        *)
(* seeded generator is.                                                    *)
(***************************************************************************)
EXTENDS Integers, Sequences, FiniteSets, TLC

VARIABLES
    player1_data,        \* raw profile handed to the constructor
    player2_data,
    phase,               \* "new" | "ready" | "error" (constructor raised)
    error,               \* exception raised by the last operation, "" if none
    player1,             \* self.player1 (enhanced profile)
    player2,
    target_score,
    make_it_take_it,
    score,               \* self.score: dict keyed by player NAME
    possession,          \* self.possession: 0 = None, 1 = player1, 2 = player2
    game_log,
    game_over,
    winner,
    pc,                  \* "idle" | "loop" (inside simulate_full_game)
    possession_count,    \* locals of simulate_full_game
    fatigue,
    alternate_possession,
    rng_stream,          \* draws simulate_full_game has read, in order
    rng_pos,             \* how many of them the current call has read
    runs,                \* simulate_full_game calls begun
    results,             \* what the simulate_full_game calls returned
    steps,               \* start_game / _simulate_possession calls made
    request,             \* the HTTP request app.py is handling (route "" if none)
    app_pc,              \* position of the route handler, "direct" without one
    external,            \* how the external text generation behaves when called
    game_result,         \* what simulate_game returned: << >> or << dict >>
    response             \* what the route handler answered

vars == << player1_data, player2_data, phase, error, player1, player2,
           target_score, make_it_take_it, score, possession, game_log,
           game_over, winner, pc, possession_count, fatigue,
           alternate_possession, rng_stream, rng_pos, runs, results, steps,
           request, app_pc, external, game_result, response >>

\* The state of app.py and of simulate_game
appvars == << request, app_pc, external, game_result, response >>

----------------------------------------------------------------------------
(* Bounds of the model *)

\* The cap of the possession loop.  The source's cap is 100 (line 371); the
\* model keeps the loop and its guard and scales the number.
SafetyLimit == 4

MaxTarget == 2          \* target_score ranges over 0 .. MaxTarget
MaxRuns == 2            \* simulate_full_game calls on one simulator
MaxSteps == 3            \* start_game and _simulate_possession calls made by hand

----------------------------------------------------------------------------
(* Fixed-point arithmetic *)

Scale == 100 * 100

Num(n) == n * Scale
Dec(n, d) == (n * Scale) \div d         \* the decimal literal n/d
Times(x, n, d) == (x * n) \div d        \* x * (n/d)
Mul(a, b) == (a * b) \div Scale
Div(a, b) == (a * Scale) \div b
Min2(a, b) == IF a < b THEN a ELSE b
Max2(a, b) == IF a > b THEN a ELSE b

\* random.random() lies in [0, 1): a low and a high draw
Draws == {0, Dec(95, 100)}

----------------------------------------------------------------------------
(* Python dicts and strings *)

EmptyDict == [k \in {} |-> 0]

\* dict.get(key, default)
Get(d, k, default) == IF k \in DOMAIN d THEN d[k] ELSE default

\* sub in s, for strings
Contains(s, sub) ==
    \E i \in 0 .. (Len(s) - Len(sub)) : SubSeq(s, i + 1, i + Len(sub)) = sub

\* s.replace(c, '') for a one-character c
RECURSIVE Remove(_, _)
Remove(s, c) ==
    IF s = << >> THEN << >>
    ELSE IF Head(s) = c THEN Remove(Tail(s), c)
    ELSE << Head(s) >> \o Remove(Tail(s), c)

\* s.split(c) for a one-character c
RECURSIVE Split(_, _)
Split(s, c) ==
    IF \A i \in 1 .. Len(s) : s[i] # c THEN << s >>
    ELSE LET i == CHOOSE j \in 1 .. Len(s) :
                      s[j] = c /\ \A k \in 1 .. (j - 1) : s[k] # c
         IN  << SubSeq(s, 1, i - 1) >> \o Split(SubSeq(s, i + 1, Len(s)), c)

DigitChars == << "0", "1", "2", "3", "4", "5", "6", "7", "8", "9" >>
IsDigit(c) == \E i \in 1 .. 10 : DigitChars[i] = c
DigitVal(c) == (CHOOSE i \in 1 .. 10 : DigitChars[i] = c) - 1

RECURSIVE Strip(_)
Strip(s) ==
    IF s = << >> THEN s
    ELSE IF Head(s) = " " THEN Strip(Tail(s))
    ELSE IF s[Len(s)] = " " THEN Strip(SubSeq(s, 1, Len(s) - 1))
    ELSE s

RECURSIVE DigitsValue(_)
DigitsValue(s) ==
    IF s = << >> THEN 0
    ELSE DigitsValue(SubSeq(s, 1, Len(s) - 1)) * 10 + DigitVal(s[Len(s)])

\* int(s): surrounding blanks and one sign are accepted, then decimal digits;
\* anything else raises ValueError (ok = FALSE)
ParseInt(s) ==
    LET t == Strip(s)
        signed == t # << >> /\ Head(t) \in {"+", "-"}
        digits == IF signed THEN Tail(t) ELSE t
        valid == digits # << >> /\ \A i \in 1 .. Len(digits) : IsDigit(digits[i])
    IN  IF ~valid THEN [ok |-> FALSE, value |-> 0]
        ELSE [ok |-> TRUE,
              value |-> IF signed /\ Head(t) = "-" THEN 0 - DigitsValue(digits)
                        ELSE DigitsValue(digits)]

----------------------------------------------------------------------------
(* Keys of the profile dicts *)

FG == "Field Goal Percentage (FG%)"
TP == "Three-Point Percentage (3P%)"
FT == "Free Throw Percentage (FT%)"
TS == "True Shooting Percentage (TS%)"
MPG == "Average Minutes Per Game (MPG)"
SPG == "Steals Per Game (SPG)"
BPG == "Blocks Per Game (BPG)"
TOV == "Turnovers Per Game (TOV)"

----------------------------------------------------------------------------
(* player_enhancer.enhance_player_data *)

\* Mutant of PositionGroup: every forward counts as a big man
PositionGroupByLetter(player) ==
    LET position == Get(player, "position", << "S", "F" >>)
    IN  IF \E pos \in {<< "C" >>, << "F" >>} : Contains(position, pos)
        THEN "Big"
        ELSE IF \E pos \in {<< "P", "G" >>, << "S", "G" >>} : Contains(position, pos)
        THEN "Guard"
        ELSE "Other"

\* Lines 35, 36 and 43: the branch the position selects
PositionGroup(player) ==
    LET position == Get(player, "position", << "S", "F" >>)
    IN  IF \E pos \in {<< "C" >>, << "P", "F" >>} : Contains(position, pos)
        THEN "Big"
        ELSE IF \E pos \in {<< "P", "G" >>, << "S", "G" >>} : Contains(position, pos)
        THEN "Guard"
        ELSE "Other"

three_point_tendency(player) ==
    LET fg_pct == Get(player, FG, Num(45))
        tp_pct == Get(player, TP, Num(33))
    IN  IF fg_pct - tp_pct < Num(8) THEN Dec(6, 10)
        ELSE IF fg_pct - tp_pct < Num(15) THEN Dec(4, 10)
        ELSE Dec(2, 10)

enhance_player_data(player) ==
    LET group == PositionGroup(player)
        scoring_efficiency ==
            Times(Get(player, FG, Num(45)), 5, 10)
            + Times(Get(player, TP, Num(33)), 3, 10)
            + Times(Get(player, FT, Num(75)), 2, 10)
        usage_rate ==
            Min2(Num(100), Get(player, "points", Num(10)) * 2
                           + Times(Get(player, "assists", Num(3)), 15, 10))
        estimated_blocks ==
            CASE group = "Big" ->
                     Dec(12, 10) + Times(Get(player, "rebounds", Num(5)), 1, 10)
              [] group = "Guard" -> Dec(3, 10)
              [] OTHER -> Dec(7, 10)
        estimated_steals ==
            CASE group = "Big" -> Dec(8, 10)
              [] group = "Guard" ->
                     Dec(12, 10) + Times(Get(player, "assists", Num(3)), 1, 10)
              [] OTHER -> Num(1)
        offensive_rebounds ==
            CASE group = "Big" -> Times(Get(player, "rebounds", Num(5)), 35, 100)
              [] group = "Guard" -> Times(Get(player, "rebounds", Num(3)), 2, 10)
              [] OTHER -> Times(Get(player, "rebounds", Num(4)), 25, 100)
        defensive_rebounds ==
            CASE group = "Big" -> Times(Get(player, "rebounds", Num(5)), 65, 100)
              [] group = "Guard" -> Times(Get(player, "rebounds", Num(3)), 8, 10)
              [] OTHER -> Times(Get(player, "rebounds", Num(4)), 75, 100)
        stamina ==
            Dec(9, 10) + Times(Get(player, MPG, Num(25)) \div 40, 2, 10)
        clutch_rating ==
            (Times(Get(player, FT, Num(75)), 6, 10)
             + Times(Get(player, TS, Num(55)), 4, 10)) \div 100
        defensive_impact ==
            (Times(Get(player, "rebounds", Num(5)), 5, 10)
             + estimated_blocks * 2
             + Times(estimated_steals, 15, 10)) \div 10
    IN  [scoring_efficiency |-> scoring_efficiency,
         usage_rate |-> usage_rate,
         estimated_blocks |-> estimated_blocks,
         estimated_steals |-> estimated_steals,
         offensive_rebounds |-> offensive_rebounds,
         defensive_rebounds |-> defensive_rebounds,
         stamina |-> stamina,
         clutch_rating |-> clutch_rating,
         three_point_tendency |-> three_point_tendency(player),
         defensive_impact |-> defensive_impact] @@ player

----------------------------------------------------------------------------
(* BasketballSimulator._calculate_derived_stats *)

\* Mutant of DefaultHeight: a default without the quote separator
DefaultHeightNoQuote == << "6", "-", "0" >>

DefaultHeight == << "6", "'", "0", "\"" >>

\* Mutant of HeightInches: a string that does not parse falls back to 72
HeightInchesLenient(height_str) ==
    LET parts == Split(Remove(height_str, "\""), "'")
    IN  IF Len(parts) = 2 /\ ParseInt(parts[1]).ok /\ ParseInt(parts[2]).ok
        THEN [ok |-> TRUE,
              value |-> ParseInt(parts[1]).value * 12 + ParseInt(parts[2]).value]
        ELSE [ok |-> TRUE, value |-> 72]

\* Lines 49-51: the height string to inches.  ok = FALSE when the unpacking
\* of the split or one of the int() calls raises ValueError.
HeightInches(height_str) ==
    LET parts == Split(Remove(height_str, "\""), "'")
    IN  IF Len(parts) # 2 THEN [ok |-> FALSE, value |-> 0]
        ELSE LET feet == ParseInt(parts[1])
                 inches == ParseInt(parts[2])
             IN  IF parts[2] # << >>
                 THEN IF inches.ok /\ feet.ok
                      THEN [ok |-> TRUE, value |-> feet.value * 12 + inches.value]
                      ELSE [ok |-> FALSE, value |-> 0]
                 ELSE IF feet.ok
                      THEN [ok |-> TRUE, value |-> feet.value * 12]
                      ELSE [ok |-> FALSE, value |-> 0]

\* The loop body raises for this (enhanced) profile
DerivedStatsRaise(player) == ~HeightInches(Get(player, "height", DefaultHeight)).ok

\* The loop body applied to one (enhanced) profile that does not raise
DerivedStats(player) ==
    LET height_inches == HeightInches(Get(player, "height", DefaultHeight)).value
        offensive_rating ==
            Times(Get(player, "points", Num(10)), 3, 10)
            + Times(Get(player, "scoring_efficiency", Num(45)), 4, 10)
            + Times(Get(player, "usage_rate", Num(20)), 3, 10)
        defensive_rating ==
            Times(Get(player, "defensive_impact", Num(5)), 6, 10)
            + (height_inches * 40 * Scale) \div 84
        missing ==
            [k \in {SPG, BPG, TOV} \ DOMAIN player |->
                CASE k = SPG -> Get(player, "estimated_steals", Dec(8, 10))
                  [] k = BPG -> Get(player, "estimated_blocks", Dec(5, 10))
                  [] OTHER -> Num(2)]
    IN  [height_inches |-> height_inches,
         offensive_rating |-> offensive_rating,
         defensive_rating |-> defensive_rating] @@ missing @@ player

----------------------------------------------------------------------------
(* BasketballSimulator._get_shot_success_probability *)

_get_shot_success_probability(offensive_player, defensive_player, shot_type) ==
    LET base_probability ==
            IF shot_type = "inside"
            THEN LET height_factor ==
                         Scale + ((Get(offensive_player, "height_inches", 72)
                                   - Get(defensive_player, "height_inches", 72))
                                  * Scale) \div 100
                 IN  Mul(Get(offensive_player, FG, Num(45)) \div 100, height_factor)
            ELSE Get(offensive_player, TP, Num(33)) \div 100
                 + Times(Get(offensive_player, "three_point_tendency", Dec(3, 10)), 1, 10)
        offensive_rating == Get(offensive_player, "offensive_rating", Num(50))
        defensive_rating == Get(defensive_player, "defensive_rating", Num(50))
        rating_factor == Scale + (offensive_rating - defensive_rating) \div 200
        defense_impact ==
            IF shot_type = "inside"
            THEN Times(Get(defensive_player, "estimated_blocks", Dec(5, 10)), 5, 100)
            ELSE Times(Get(defensive_player, "estimated_steals", Dec(8, 10)), 3, 100)
        final_probability == Mul(base_probability, rating_factor) - defense_impact
    IN  Max2(Dec(1, 10), Min2(Dec(9, 10), final_probability))

----------------------------------------------------------------------------
(* The profiles the constructor is given *)

\* The two profiles of the module's own test (lines 591-611)
TestPlayer1 ==
    [name |-> "Test Player 1", position |-> << "C" >>,
     points |-> Dec(205, 10), rebounds |-> Dec(102, 10), assists |-> Dec(23, 10),
     height |-> << "6", "'", "1", "0" >>]
    @@ (FG :> Dec(521, 10)) @@ (TP :> Dec(225, 10))

TestPlayer2 ==
    [name |-> "Test Player 2", position |-> << "S", "G" >>,
     points |-> Dec(221, 10), rebounds |-> Dec(45, 10), assists |-> Dec(57, 10),
     height |-> << "6", "'", "5" >>]
    @@ (FG :> Dec(458, 10)) @@ (TP :> Dec(382, 10))

\* Two profiles with identical statistics
Wing(name) ==
    [name |-> name, position |-> << "S", "F" >>, rebounds |-> Num(5)]
    @@ (FG :> Num(50)) @@ (TP :> Num(35))

\* Only name and position
Bare(name, position) == [name |-> name, position |-> position]

\* Only a name
NameOnly(name) == [name |-> name]

WithHeight(player, height_str) == [height |-> height_str] @@ player
Renamed(player, name) == [name |-> name] @@ player

\* A tall player who makes every shot of the season
Sharp ==
    [name |-> "S", position |-> << "C" >>, points |-> Num(30),
     rebounds |-> Num(10), height |-> << "7", "'", "0" >>]
    @@ (FG :> Num(100)) @@ (TP :> Num(100))

\* A player without a rebound to the name
NoRebounds(name) == [rebounds |-> Num(0)] @@ Wing(name)

SixFootOne == << "s", "i", "x", " ", "f", "o", "o", "t", " ", "o", "n", "e" >>

ProfilePairs ==
    { << Wing("A"), Wing("B") >>,
      << TestPlayer1, TestPlayer2 >>,
      << Bare("M", << "P", "G" >>), Bare("N", << "P", "F" >>) >>,
      << Wing("A"), Wing("A") >>,
      << Wing("A"), Renamed(TestPlayer1, "A") >>,
      << NameOnly("X"), Wing("B") >>,
      << WithHeight(Wing("A"), SixFootOne), Wing("B") >>,
      << Wing("A"), WithHeight(Wing("B"), << "6", "'", "1", "'", "2" >>) >>,
      << WithHeight(Wing("A"), << "s", "i", "x", "'", "1" >>), Wing("B") >>,
      << WithHeight(Wing("A"), << "6", "'" >>), WithHeight(Wing("B"), << "'", "5" >>) >>,
      << Sharp, Wing("B") >>,
      << NoRebounds("A"), NoRebounds("B") >> }

----------------------------------------------------------------------------
(* Simulator state helpers *)

Player(slot) == IF slot = 1 THEN player1 ELSE player2

\* Mutant of Defender: the defender is always self.player1
DefenderAlwaysFirst(offense) == 1

\* Mutant of Defender: the shooter is taken for the defender
DefenderIsShooter(offense) == offense

\* Mutant of Defender: the defender is always self.player2
DefenderAlwaysSecond(offense) == 2

\* "self.player2 if offensive_player == self.player1 else self.player1":
\* == on dicts compares their contents
Defender(offense) == IF Player(offense) = player1 THEN 2 ELSE 1

\* {a['name']: 0, b['name']: 0}: one entry per distinct name
ZeroByName(a, b) == [n \in {a["name"], b["name"]} |-> 0]

\* max(self.score.values())
MaxScore(s) == CHOOSE m \in {s[n] : n \in DOMAIN s} : \A n \in DOMAIN s : s[n] <= m

\* self.winner: None, a player dict (simulate_full_game) or a name
\* (_simulate_possession)
WinnerNone == [kind |-> "None", slot |-> 0, name |-> ""]

\* Mutant of WinnerPlayer: the winner is the player who defended
WinnerIsDefender(slot) ==
    [kind |-> "player", slot |-> 3 - slot,
     name |-> (IF slot = 1 THEN player2 ELSE player1)["name"]]

WinnerPlayer(slot) == [kind |-> "player", slot |-> slot, name |-> Player(slot)["name"]]
WinnerName(name) == [kind |-> "name", slot |-> 0, name |-> name]

\* Mutant of Event: the check of the ball is logged under a type of its own
EventPossessionType(type, text) ==
    [type |-> IF type = "check_ball" THEN "possession" ELSE type, text |-> text]

\* An entry of self.game_log
Event(type, text) == [type |-> type, text |-> text]

RuleText == IF make_it_take_it THEN "make it, take it" ELSE "alternating possession"

\* Lines 80-82 and 359-361
IntroText(first) ==
    << "Welcome to this 1v1 showdown between ", player1["name"], " and ",
       player2["name"], "! ", "First to ", ToString(target_score),
       " points wins, and we're playing ", RuleText, " rules. ",
       Player(first)["name"], " wins the tip and will start with the ball." >>

\* The description names the shooter, a move of the shot type's pool and a
\* phrase of the outcome's pool (the optional mention of the defence is a
\* wording choice and is left out)
_generate_shot_description(offensive_player, defensive_player, shot_type, successful) ==
    << offensive_player["name"], " ",
       IF shot_type = "inside" THEN "<inside move>" ELSE "<outside move>", " ",
       IF successful THEN "<success phrase>" ELSE "<miss phrase>" >>

\* The random source of simulate_full_game: the k-th value it yields
NextDraw(k, values) == IF k <= Len(rng_stream) THEN {rng_stream[k]} ELSE values

\* rng_stream after the current call has read the values ds
Consumed(ds) ==
    IF rng_pos + Len(ds) > Len(rng_stream)
    THEN SubSeq(rng_stream, 1, rng_pos) \o ds
    ELSE rng_stream

\* No route is being handled: the simulator is used directly
NoRequest == [route |-> "", method |-> ""]
NoResponse == [status |-> 0]

----------------------------------------------------------------------------
(* Initial state: the arguments of the constructor, nothing constructed *)

Init ==
    /\ \E pair \in ProfilePairs :
           /\ player1_data = pair[1]
           /\ player2_data = pair[2]
    /\ target_score \in 0 .. MaxTarget
    /\ make_it_take_it \in BOOLEAN
    /\ phase = "new"
    /\ error = ""
    /\ player1 = EmptyDict
    /\ player2 = EmptyDict
    /\ score = EmptyDict
    /\ possession = 0
    /\ game_log = << >>
    /\ game_over = FALSE
    /\ winner = WinnerNone
    /\ pc = "idle"
    /\ possession_count = 0
    /\ fatigue = EmptyDict
    /\ alternate_possession = FALSE
    /\ rng_stream = << >>
    /\ rng_pos = 0
    /\ runs = 0
    /\ results = << >>
    /\ steps = 0
    /\ request = NoRequest
    /\ app_pc = "direct"
    /\ external = "unused"
    /\ game_result = << >>
    /\ response = NoResponse

----------------------------------------------------------------------------
(* BasketballSimulator.__init__ *)

\* Mutant of ArgumentAfterEnhance: the enhancer and the constructor work on
\* the dict they were handed, which comes back with the derived fields
ArgumentAliased(player) == DerivedStats(enhance_player_data(player))

\* player_enhancer.py line 19: the enhancer writes to a copy of its argument,
\* and lines 47-72 write to that copy; the caller's dict is as it was
ArgumentAfterEnhance(player) == player

Construct ==
    /\ phase = "new"
    /\ player1_data' = ArgumentAfterEnhance(player1_data)
    /\ player2_data' = ArgumentAfterEnhance(player2_data)
    /\ LET e1 == enhance_player_data(player1_data)
           e2 == enhance_player_data(player2_data)
       IN  IF DerivedStatsRaise(e1) \/ DerivedStatsRaise(e2)
           THEN \* the ValueError leaves __init__: no simulator exists
                /\ phase' = "error"
                /\ error' = "ValueError"
                /\ UNCHANGED << player1, player2, score >>
           ELSE /\ phase' = "ready"
                /\ error' = ""
                /\ player1' = DerivedStats(e1)
                /\ player2' = DerivedStats(e2)
                /\ score' = ZeroByName(player1_data, player2_data)
    /\ UNCHANGED << target_score, make_it_take_it,
                    possession, game_log, game_over, winner, pc,
                    possession_count, fatigue, alternate_possession,
                    rng_stream, rng_pos, runs, results, steps >>
    /\ UNCHANGED appvars

----------------------------------------------------------------------------
(* BasketballSimulator.simulate_full_game *)

\* Mutant of InitialScore: the score of the previous match is kept
InitialScoreKept == score

\* Line 354: the score dict the call starts from
InitialScore == ZeroByName(player1, player2)

\* Lines 353-369: the call resets the match state and picks the first
\* possession; self.game_over is not assigned
BeginFullGame ==
    /\ phase = "ready"
    /\ pc = "idle"
    /\ runs < MaxRuns
    /\ \E first \in NextDraw(1, {1, 2}) :
           /\ possession' = first
           /\ game_log' = << Event("intro", IntroText(first)) >>
           /\ rng_stream' = IF Len(rng_stream) >= 1 THEN rng_stream ELSE << first >>
    /\ rng_pos' = 1
    /\ score' = InitialScore
    /\ winner' = WinnerNone
    /\ fatigue' = ZeroByName(player1, player2)
    /\ possession_count' = 0
    /\ alternate_possession' = ~make_it_take_it
    /\ pc' = "loop"
    /\ error' = ""
    /\ runs' = runs + 1
    /\ UNCHANGED << player1_data, player2_data, phase, player1, player2,
                    target_score, make_it_take_it, game_over, results, steps >>
    /\ UNCHANGED appvars

\* Mutant of LoopGuard: the loop runs while no score is above the target
LoopGuardAtTarget ==
    MaxScore(score) <= target_score /\ possession_count < SafetyLimit

\* Mutant of LoopGuard: the cap is compared with <=
LoopGuardOffByOne ==
    MaxScore(score) < target_score /\ possession_count <= SafetyLimit

\* Line 371: the loop condition
LoopGuard == MaxScore(score) < target_score /\ possession_count < SafetyLimit

\* Lines 393-403: the chance of an inside shot
shot_type_odds(offensive_player) ==
    LET base == IF offensive_player["position"]
                       \in {<< "P", "G" >>, << "S", "G" >>, << "S", "F" >>}
                THEN Dec(5, 10) ELSE Dec(7, 10)
    IN  IF Get(offensive_player, TP, Num(30)) > Num(35)
        THEN base - Dec(1, 10) ELSE base

\* Line 383
fatigue_factor(offensive_player) ==
    Scale - Mul(Times(fatigue[offensive_player["name"]], 1, 100),
                Div(Scale, Get(offensive_player, "stamina", Scale)))

\* Mutant of IncreaseFatigue: the defender recovers while the shooter tires
FatigueWithRecovery(offense_name, defense_name) ==
    LET f == [fatigue EXCEPT ![offense_name] = @ + Dec(5, 10)]
    IN  [f EXCEPT ![defense_name] = @ - Dec(3, 10)]

\* Lines 443-445
IncreaseFatigue(offense_name, defense_name) ==
    LET f == [fatigue EXCEPT ![offense_name] = @ + Dec(5, 10)]
    IN  [f EXCEPT ![defense_name] = @ + Dec(3, 10)]

\* Line 386: the chance the turnover draw is compared with
full_game_turnover_chance(offensive_player) ==
    Dec(5, 100) + Get(offensive_player, TOV, Num(2)) \div 40

\* Lines 405-409: the chance the shot draw is compared with
full_game_success_prob(offensive_player, defensive_player, shot_type) ==
    Mul(_get_shot_success_probability(offensive_player, defensive_player, shot_type),
        fatigue_factor(offensive_player))

\* An exception leaves the loop and the call
LoopRaise(exception, log, ds) ==
    /\ pc' = "idle"
    /\ error' = exception
    /\ game_log' = log
    /\ rng_stream' = Consumed(ds)
    /\ rng_pos' = rng_pos + Len(ds)
    /\ UNCHANGED << score, possession, winner, fatigue >>

\* Lines 372-445: one pass of the loop body
FullGameIteration ==
    /\ phase = "ready"
    /\ pc = "loop"
    /\ LoopGuard
    /\ possession_count' = possession_count + 1
    /\ LET offense == possession
           defense == Defender(offense)
           offensive_player == Player(offense)
           defensive_player == Player(defense)
           oname == offensive_player["name"]
           dname == defensive_player["name"]
           log1 == Append(game_log,
                          Event("check_ball",
                                << oname, " checks the ball at the top of the key." >>))
           turnover_chance == full_game_turnover_chance(offensive_player)
       IN  IF Get(offensive_player, "stamina", Scale) = 0
           THEN LoopRaise("ZeroDivisionError", log1, << >>)
           ELSE \E d1 \in NextDraw(rng_pos + 1, Draws) :
             IF d1 < turnover_chance
             THEN \* lines 388-391: turnover, then `continue`
                  /\ game_log' = Append(log1,
                         Event("turnover",
                               << oname, " loses control of the ball! Turnover to ",
                                  dname, "." >>))
                  /\ possession' = defense
                  /\ rng_stream' = Consumed(<< d1 >>)
                  /\ rng_pos' = rng_pos + 1
                  /\ UNCHANGED << score, winner, fatigue, pc, error >>
             ELSE IF "position" \notin DOMAIN offensive_player
             THEN LoopRaise("KeyError", log1, << d1 >>)
             ELSE \E d2 \in NextDraw(rng_pos + 2, Draws),
                     d3 \in NextDraw(rng_pos + 3, Draws) :
               LET shot_type == IF d2 < shot_type_odds(offensive_player)
                                THEN "inside" ELSE "outside"
                   success_prob ==
                       full_game_success_prob(offensive_player, defensive_player,
                                              shot_type)
                   shot_successful == d3 < success_prob
                   shot_description ==
                       _generate_shot_description(offensive_player, defensive_player,
                                                  shot_type, shot_successful)
                   points == IF shot_type = "inside" THEN 1 ELSE 2
                   score1 == [score EXCEPT ![oname] = @ + points]
               IN  /\ rng_stream' = Consumed(<< d1, d2, d3 >>)
                   /\ rng_pos' = rng_pos + 3
                   /\ error' = error
                   /\ IF shot_successful
                      THEN /\ score' = score1
                           /\ game_log' = Append(log1,
                                  Event("shot_made",
                                        shot_description \o
                                        << " ", oname, " scores! ", "Score: ",
                                           oname, " ", ToString(score1[oname]), ", ",
                                           dname, " ", ToString(score1[dname]), "." >>))
                           /\ IF score1[oname] >= target_score
                              THEN \* lines 428-430: the winner, then `break`
                                   /\ winner' = WinnerPlayer(offense)
                                   /\ pc' = "conclude"
                                   /\ UNCHANGED << possession, fatigue >>
                              ELSE /\ possession' = IF ~alternate_possession
                                                    THEN possession ELSE defense
                                   /\ fatigue' = IncreaseFatigue(oname, dname)
                                   /\ UNCHANGED << winner, pc >>
                      ELSE /\ game_log' = Append(log1,
                                  Event("shot_missed",
                                        shot_description \o
                                        << " ", dname, " grabs the rebound." >>))
                           /\ possession' = defense
                           /\ fatigue' = IncreaseFatigue(oname, dname)
                           /\ UNCHANGED << score, winner, pc >>
    /\ UNCHANGED << player1_data, player2_data, phase, player1, player2,
                    target_score, make_it_take_it, game_over,
                    alternate_possession, runs, results, steps >>
    /\ UNCHANGED appvars

\* Lines 457-463: the dict the call returns; winner is << >> for None
GameResult(log) ==
    [game_log |-> log,
     final_score |-> score,
     winner |-> IF winner.kind = "None" THEN << >> ELSE << winner.name >>,
     player1 |-> player1,
     player2 |-> player2]

NoWinnerText ==
    << "The game reached the maximum number of possessions without a winner." >>

\* Mutant of WithConclusion: the branch of the match without a winner is missing
WithConclusionWinOnly(log) ==
    IF winner.kind # "None"
    THEN Append(log, Event("conclusion",
                           << "Game over! ", winner.name, " wins ",
                              ToString(score[winner.name]), "!" >>))
    ELSE log

\* Lines 447-454: the log with the conclusion of the match
WithConclusion(log) ==
    IF winner.kind # "None"
    THEN LET w == Player(winner.slot)
             loser == IF w = player1 THEN player2 ELSE player1
         IN  Append(log, Event("conclusion",
                               << "Game over! ", w["name"], " wins ",
                                  ToString(score[w["name"]]), " to ",
                                  ToString(score[loser["name"]]), "!" >>))
    ELSE Append(log, Event("conclusion", NoWinnerText))

\* Lines 447-463: after the loop
ConcludeFullGame ==
    /\ phase = "ready"
    /\ \/ pc = "conclude"
       \/ pc = "loop" /\ ~LoopGuard
    /\ LET log == WithConclusion(game_log)
       IN  /\ game_log' = log
           /\ results' = Append(results, GameResult(log))
    /\ pc' = "idle"
    /\ UNCHANGED << player1_data, player2_data, phase, error, player1, player2,
                    target_score, make_it_take_it, score, possession, game_over,
                    winner, possession_count, fatigue, alternate_possession,
                    rng_stream, rng_pos, runs, steps >>
    /\ UNCHANGED appvars

Next ==
    \/ Construct
    \/ BeginFullGame
    \/ FullGameIteration
    \/ ConcludeFullGame

Spec == Init /\ [][Next]_vars

----------------------------------------------------------------------------
(* BasketballSimulator.start_game and ._simulate_possession, called by hand *)

start_game ==
    /\ phase = "ready"
    /\ pc = "idle"
    /\ steps < MaxSteps
    /\ steps' = steps + 1
    /\ error' = ""
    /\ \E first \in {1, 2} :
           /\ possession' = first
           /\ game_log' = Append(game_log, Event("intro", IntroText(first)))
    /\ UNCHANGED << player1_data, player2_data, phase, player1, player2,
                    target_score, make_it_take_it, score, game_over, winner, pc,
                    possession_count, fatigue, alternate_possession,
                    rng_stream, rng_pos, runs, results >>
    /\ UNCHANGED appvars

\* Mutant of block_chance: a shot of either type can be blocked
block_chance_any_shot(offensive_player, defensive_player, shot_type) ==
    Get(defensive_player, "estimated_blocks", Dec(5, 10)) \div 10
    + (IF Get(defensive_player, "height_inches", 72)
             > Get(offensive_player, "height_inches", 72)
       THEN ((Get(defensive_player, "height_inches", 72)
              - Get(offensive_player, "height_inches", 72)) * Scale) \div 200
       ELSE 0)

\* Lines 166-174
block_chance(offensive_player, defensive_player, shot_type) ==
    IF shot_type # "inside" THEN 0
    ELSE Get(defensive_player, "estimated_blocks", Dec(5, 10)) \div 10
         + (IF Get(defensive_player, "height_inches", 72)
                  > Get(offensive_player, "height_inches", 72)
            THEN ((Get(defensive_player, "height_inches", 72)
                   - Get(offensive_player, "height_inches", 72)) * Scale) \div 200
            ELSE 0)

\* Lines 190-198: the situation in which the clutch factor applies
ClutchSituation(offense_name, defense_name) ==
    LET a == score[offense_name]
        b == score[defense_name]
        score_diff == IF a >= b THEN a - b ELSE b - a
    IN  score_diff <= 2 /\ Max2(a, b) >= target_score - 3

\* Lines 188-202: the probability the shot is drawn against
possession_success_prob(offensive_player, defensive_player, shot_type) ==
    LET p0 == _get_shot_success_probability(offensive_player, defensive_player, shot_type)
        p1 == IF ClutchSituation(offensive_player["name"], defensive_player["name"])
              THEN Mul(p0, Scale + Times(Get(offensive_player, "clutch_rating",
                                             Dec(5, 10)), 2, 10))
              ELSE p0
    IN  Mul(p1, Dec(95, 100) + Times(Get(offensive_player, "stamina", Scale), 1, 10))

\* Lines 235-246: numerator and denominator of the offensive-rebound chance
rebound_parts(offensive_player, defensive_player, shot_type) ==
    IF shot_type = "inside"
    THEN [num |-> Get(offensive_player, "offensive_rebounds", Num(2)),
          den |-> Get(offensive_player, "offensive_rebounds", Num(2))
                  + Get(defensive_player, "defensive_rebounds", Num(5))]
    ELSE [num |-> Get(offensive_player, "offensive_rebounds", Num(1)),
          den |-> Get(offensive_player, "offensive_rebounds", Num(1))
                  + Times(Get(defensive_player, "defensive_rebounds", Num(4)), 12, 10)]

\* Lines 235-254
off_rebound_chance(offensive_player, defensive_player, shot_type) ==
    LET r == rebound_parts(offensive_player, defensive_player, shot_type)
        height_advantage ==
            ((Get(offensive_player, "height_inches", 72)
              - Get(defensive_player, "height_inches", 72)) * Scale) \div 100
    IN  Max2(Dec(2, 10), Min2(Dec(8, 10), Div(r.num, r.den) + height_advantage))

\* Lines 137-140: the chance the turnover draw is compared with
possession_turnover_chance(offensive_player, defensive_player) ==
    Get(offensive_player, TOV, Num(2)) \div 15
    + Get(defensive_player, "estimated_steals", Dec(8, 10)) \div 10

\* What the call leaves alone whatever happens
PossessionFrame ==
    UNCHANGED << player1_data, player2_data, phase, player1, player2,
                 target_score, make_it_take_it, pc, possession_count, fatigue,
                 alternate_possession, rng_stream, rng_pos, runs, results,
                 appvars >>

_simulate_possession ==
    /\ phase = "ready"
    /\ pc = "idle"
    /\ steps < MaxSteps
    /\ steps' = steps + 1
    /\ PossessionFrame
    /\ IF possession = 0
       THEN \* offensive_player is None: None.get raises
            /\ error' = "AttributeError"
            /\ UNCHANGED << score, possession, game_log, game_over, winner >>
       ELSE
       LET offense == possession
           defense == Defender(offense)
           offensive_player == Player(offense)
           defensive_player == Player(defense)
           oname == offensive_player["name"]
           dname == defensive_player["name"]
           turnover_chance == Get(offensive_player, TOV, Num(2)) \div 15
           steal_chance == Get(defensive_player, "estimated_steals", Dec(8, 10)) \div 10
       IN  \E d1 \in Draws :
           IF d1 < possession_turnover_chance(offensive_player, defensive_player)
           THEN \* lines 141-159
                \E d2 \in Draws :
                /\ game_log' = Append(game_log,
                       Event("turnover",
                             IF d2 < Div(steal_chance, turnover_chance + steal_chance)
                             THEN << dname, " steals the ball from ", oname, "!" >>
                             ELSE << oname, " ", "<unforced turnover>" >>))
                /\ possession' = defense
                /\ error' = ""
                /\ UNCHANGED << score, game_over, winner >>
           ELSE
           \E d3 \in Draws, d4 \in Draws :
           LET shot_type ==
                   IF d3 < Get(offensive_player, "three_point_tendency", Dec(3, 10))
                   THEN "outside" ELSE "inside"
           IN  IF d4 < block_chance(offensive_player, defensive_player, shot_type)
               THEN \* lines 177-185
                    \E d5 \in Draws :
                    /\ game_log' = Append(game_log,
                           Event("block",
                                 << IF shot_type = "inside" THEN "<inside block>"
                                    ELSE "<outside block>", oname, dname >>))
                    /\ possession' = IF d5 < Dec(5, 10) THEN defense ELSE possession
                    /\ error' = ""
                    /\ UNCHANGED << score, game_over, winner >>
               ELSE
               \E d6 \in Draws :
               LET shot_successful ==
                       d6 < possession_success_prob(offensive_player,
                                                    defensive_player, shot_type)
                   shot_description ==
                       _generate_shot_description(offensive_player, defensive_player,
                                                  shot_type, shot_successful)
                   log1 == Append(game_log,
                                  Event(IF shot_successful THEN "shot_made"
                                        ELSE "shot_missed", shot_description))
                   points == IF shot_type = "outside" THEN 2 ELSE 1
                   score1 == [score EXCEPT ![oname] = @ + points]
               IN  IF shot_successful
                   THEN \* lines 216-232
                        /\ score' = score1
                        /\ IF score1[oname] >= target_score
                           THEN /\ game_over' = TRUE
                                /\ winner' = WinnerName(oname)
                                /\ game_log' = Append(log1,
                                       Event("conclusion",
                                             << "Game over! ", oname, " wins ",
                                                ToString(score1[oname]), "-",
                                                ToString(score1[dname]), "!" >>))
                           ELSE /\ game_log' = log1
                                /\ UNCHANGED << game_over, winner >>
                        /\ possession' = IF ~make_it_take_it THEN defense
                                          ELSE possession
                        /\ error' = ""
                   ELSE \* lines 233-266
                        IF rebound_parts(offensive_player, defensive_player,
                                         shot_type).den = 0
                        THEN /\ error' = "ZeroDivisionError"
                             /\ game_log' = log1
                             /\ UNCHANGED << score, possession, game_over, winner >>
                        ELSE
                        \E d7 \in Draws :
                        /\ error' = ""
                        /\ UNCHANGED << score, game_over, winner >>
                        /\ IF d7 < off_rebound_chance(offensive_player,
                                                      defensive_player, shot_type)
                           THEN /\ game_log' = Append(log1,
                                       Event("rebound",
                                             << oname, " grabs their own miss!" >>))
                                /\ possession' = possession
                           ELSE /\ game_log' = Append(log1,
                                       Event("rebound",
                                             << dname,
                                                " secures the defensive rebound." >>))
                                /\ possession' = defense

\* The profiles of the specification that is driven one way or the other
EitherPairs ==
    { << Wing("A"), Wing("B") >>,
      << TestPlayer1, TestPlayer2 >>,
      << Wing("A"), Renamed(TestPlayer1, "A") >>,
      << Wing("A"), Wing("A") >> }

\* The profiles of the hand-driven specification
StepPairs ==
    { << Wing("A"), Wing("B") >>,
      << TestPlayer1, TestPlayer2 >>,
      << Wing("A"), Renamed(TestPlayer1, "A") >>,
      << Sharp, Wing("B") >>,
      << NoRebounds("A"), NoRebounds("B") >> }

InitStep ==
    /\ Init
    /\ << player1_data, player2_data >> \in StepPairs

NextStep ==
    \/ Construct
    \/ start_game
    \/ _simulate_possession

SpecStep == InitStep /\ [][NextStep]_vars

\* A simulator that is driven one way or the other: by simulate_full_game
\* runs, or by possessions played by hand
FullGameOnly == steps = 0 /\ BeginFullGame
HandStart == runs = 0 /\ start_game
HandPossession == runs = 0 /\ _simulate_possession

NextEither ==
    \/ Construct
    \/ FullGameOnly
    \/ FullGameIteration
    \/ ConcludeFullGame
    \/ HandStart
    \/ HandPossession

\* Its profiles: those of the hand-driven specification and two identical ones
InitEither ==
    /\ Init
    /\ << player1_data, player2_data >> \in EitherPairs

SpecEither == InitEither /\ [][NextEither]_vars

----------------------------------------------------------------------------
(* enhance_player_data over the positions and a range of statistics *)

Positions ==
    {<< "P", "G" >>, << "S", "G" >>, << "S", "F" >>, << "P", "F" >>, << "C" >>}

\* -1 stands for a statistic the profile does not carry
ReboundValues == {-1, Num(0), Dec(45, 10), Num(5), Dec(102, 10)}
AssistValues == {-1, Num(0), Dec(23, 10), Dec(57, 10)}

StatProfile(position, rebounds, assists) ==
    (IF rebounds = -1 THEN EmptyDict ELSE [k \in {"rebounds"} |-> rebounds])
    @@ (IF assists = -1 THEN EmptyDict ELSE [k \in {"assists"} |-> assists])
    @@ [name |-> "P", position |-> position]

InitEnhance ==
    /\ \E position \in Positions, rebounds \in ReboundValues, assists \in AssistValues :
           player1_data = StatProfile(position, rebounds, assists)
    /\ player2_data = Wing("B")
    /\ target_score = 1
    /\ make_it_take_it = TRUE
    /\ phase = "new"
    /\ error = ""
    /\ player1 = EmptyDict
    /\ player2 = EmptyDict
    /\ score = EmptyDict
    /\ possession = 0
    /\ game_log = << >>
    /\ game_over = FALSE
    /\ winner = WinnerNone
    /\ pc = "idle"
    /\ possession_count = 0
    /\ fatigue = EmptyDict
    /\ alternate_possession = FALSE
    /\ rng_stream = << >>
    /\ rng_pos = 0
    /\ runs = 0
    /\ results = << >>
    /\ steps = 0
    /\ request = NoRequest
    /\ app_pc = "direct"
    /\ external = "unused"
    /\ game_result = << >>
    /\ response = NoResponse

\* The constructor applies enhance_player_data to each profile (lines 30-31)
NextEnhance == Construct

SpecEnhance == InitEnhance /\ [][NextEnhance]_vars

----------------------------------------------------------------------------
(* BasketballSimulator.get_enhanced_commentary and simulate_game *)

\* What the external text generation does when it is called (lines 507-509):
\* one of the three calls raises, or a text comes back
ExternalFailures ==
    {"GenerativeModel raises", "generate_content raises", "response.text raises"}
ExternalOutcomes == ExternalFailures \cup {"text with markup", "plain text"}

\* Lines 542-550: the text built from the event log
RECURSIVE FallbackText(_)
FallbackText(log) ==
    IF log = << >> THEN << >>
    ELSE LET entry == Head(log)
             part ==
                 CASE entry.type = "intro" ->
                          << "<p>" >> \o entry.text \o << "</p>\n" >>
                   [] entry.type = "conclusion" ->
                          << "<p><strong>" >> \o entry.text \o << "</strong></p>\n" >>
                   [] entry.type \in {"shot_made", "shot_missed", "block", "turnover"} ->
                          << "<p>" >> \o entry.text \o << "</p>\n" >>
                   [] OTHER -> << >>
         IN  part \o FallbackText(Tail(log))

\* Mutant of get_enhanced_commentary: the external call is not guarded and
\* its exception leaves the method
get_enhanced_commentary_unguarded(outcome) ==
    IF outcome \in ExternalFailures
    THEN [raised |-> TRUE, text |-> << >>]
    ELSE [raised |-> FALSE, text |-> << "<generated commentary>" >>]

\* Lines 465-550.  The prompt (lines 471-503) is built from the profiles and
\* the log with json.dumps, which accepts every value a profile holds here;
\* everything after it runs inside the try.  A generated text is its own tag,
\* with the markup of lines 512-536 when it came without.
get_enhanced_commentary(outcome) ==
    IF outcome \in ExternalFailures
    THEN [raised |-> FALSE, text |-> FallbackText(game_log)]
    ELSE [raised |-> FALSE,
          text |-> IF outcome = "plain text"
                   THEN << "<p>", "<generated commentary>", "</p>" >>
                   ELSE << "<generated commentary>" >>]

\* Lines 573-586, after simulate_full_game has returned: the simulator was
\* built by this call (line 568) and ran once (line 571); use_gemini has its
\* default, True.  enhanced_commentary is << >> for None.
simulate_game_return ==
    /\ app_pc = "simulate_game"
    /\ phase = "ready" /\ pc = "idle" /\ runs = 1 /\ Len(results) = 1
    /\ \E outcome \in ExternalOutcomes :
           LET commentary == get_enhanced_commentary(outcome)
           IN  /\ external' = outcome
               /\ game_result' =
                      << [enhanced_player1 |-> player1,
                          enhanced_player2 |-> player2,
                          enhanced_commentary |->
                              IF commentary.raised THEN << >>
                              ELSE << commentary.text >>]
                         @@ results[1] >>
    /\ app_pc' = "returned"
    /\ UNCHANGED << player1_data, player2_data, phase, error, player1, player2,
                    target_score, make_it_take_it, score, possession, game_log,
                    game_over, winner, pc, possession_count, fatigue,
                    alternate_possession, rng_stream, rng_pos, runs, results,
                    steps, request, response >>

----------------------------------------------------------------------------
(* app.py *)

\* A request value: a form field is a string or missing (None), a JSON
\* field an int or a string
NoneValue == [kind |-> "none", v |-> ""]
IntValue(n) == [kind |-> "int", v |-> n]
StrValue(str) == [kind |-> "str", v |-> str]

\* str(x)
Str(x) ==
    CASE x.kind = "int" -> ToString(x.v)
      [] x.kind = "str" -> x.v
      [] OTHER -> "None"

\* players.json as loaded at lines 12-13: the profiles with their ids
Players ==
    << [id |-> IntValue(1)] @@ Wing("A"),
       [id |-> IntValue(2)] @@ Wing("B"),
       [id |-> StrValue("3")] @@ NameOnly("X") >>

\* Mutant of get_player: an unknown id yields the first player
get_player_or_first(player_id) ==
    LET matches == {i \in 1 .. Len(Players) : Str(Players[i]["id"]) = Str(player_id)}
    IN  IF matches = {} THEN << Players[1] >>
        ELSE << Players[CHOOSE i \in matches : \A j \in matches : i <= j] >>

\* Lines 16-20: << >> is None
get_player(player_id) ==
    LET matches == {i \in 1 .. Len(Players) : Str(Players[i]["id"]) = Str(player_id)}
    IN  IF matches = {} THEN << >>
        ELSE << Players[CHOOSE i \in matches : \A j \in matches : i <= j] >>

\* The truth value of what get_player returned
Truthy(p) == p # << >> /\ DOMAIN p[1] # {}

DefaultTargetScore == 11

\* Lines 86 and 94-99
form_target_score(form) ==
    LET field == Get(form, "target_score", << >>)
    IN  IF field # << >> /\ ParseInt(field).ok THEN ParseInt(field).value
        ELSE DefaultTargetScore

\* Lines 126-127; sim_result and ai_commentary are << >> for None
Render(sim_result, ai_commentary, target) ==
    [status |-> 200, template |-> "simulate.html", sim_result |-> sim_result,
     ai_commentary |-> ai_commentary, target_score |-> target]

Json(status, body) == [status |-> status, json |-> body]

\* The handler calls simulate_game(p1, p2, target_score=target): the
\* arguments of the constructor (line 568), the other two with their defaults
CallSimulateGame(p1, p2, target) ==
    /\ player1_data' = p1
    /\ player2_data' = p2
    /\ target_score' = target
    /\ make_it_take_it' = TRUE
    /\ phase' = "new"
    /\ app_pc' = "simulate_game"
    /\ UNCHANGED response

\* The handler answers without a simulation
Answer(resp) ==
    /\ response' = resp
    /\ app_pc' = "done"
    /\ UNCHANGED << player1_data, player2_data, target_score, make_it_take_it,
                    phase >>

\* What no route handler touches itself
RouteFrame ==
    UNCHANGED << error, player1, player2, score, possession, game_log,
                 game_over, winner, pc, possession_count, fatigue,
                 alternate_possession, rng_stream, rng_pos, runs, results,
                 steps, request, external, game_result >>

\* Lines 83-103, up to the call of simulate_game, and lines 126-127 when
\* nothing is simulated
simulate ==
    /\ app_pc = "received"
    /\ request.route = "/simulate"
    /\ RouteFrame
    /\ IF request.method = "POST"
       THEN LET p1 == get_player(Get(request.form, "player1", NoneValue))
                p2 == get_player(Get(request.form, "player2", NoneValue))
                target == form_target_score(request.form)
            IN  IF Truthy(p1) /\ Truthy(p2)
                THEN CallSimulateGame(p1[1], p2[1], target)
                ELSE Answer(Render(<< >>, << >>, target))
       ELSE Answer(Render(<< >>, << >>, DefaultTargetScore))

\* Lines 105-127, after simulate_game has returned
simulate_respond ==
    /\ app_pc = "returned"
    /\ request.route = "/simulate"
    /\ LET p1 == player1_data
           p2 == player2_data
           result == game_result[1]
           winner_name == result.winner
           winner_shown == IF winner_name = << p1["name"] >> THEN p1 ELSE p2
           sim_result ==
               [player1 |-> p1, player2 |-> p2,
                enhanced_player1 |-> result.enhanced_player1,
                enhanced_player2 |-> result.enhanced_player2,
                winner |-> winner_shown,
                final_score |-> result.final_score,
                game_log |-> result.game_log]
       IN  response' = Render(<< sim_result >>, result.enhanced_commentary,
                              target_score)
    /\ app_pc' = "done"
    /\ RouteFrame
    /\ UNCHANGED << player1_data, player2_data, target_score, make_it_take_it,
                    phase >>

\* Lines 135-149, up to the call of simulate_game; request.json is << >> for
\* None
api_simulate ==
    /\ app_pc = "received"
    /\ request.route = "/api/simulate"
    /\ RouteFrame
    /\ LET data == request.json
       IN  IF \/ data = << >>
              \/ DOMAIN data[1] = {}
              \/ "player1_id" \notin DOMAIN data[1]
              \/ "player2_id" \notin DOMAIN data[1]
           THEN Answer(Json(400, [error |-> "Missing player IDs"]))
           ELSE LET p1 == get_player(data[1]["player1_id"])
                    p2 == get_player(data[1]["player2_id"])
                IN  IF ~Truthy(p1) \/ ~Truthy(p2)
                    THEN Answer(Json(404, [error |-> "Player not found"]))
                    ELSE CallSimulateGame(p1[1], p2[1],
                             Get(data[1], "target_score",
                                 IntValue(DefaultTargetScore)).v)

\* Line 151
api_respond ==
    /\ app_pc = "returned"
    /\ request.route = "/api/simulate"
    /\ response' = Json(200, game_result[1])
    /\ app_pc' = "done"
    /\ RouteFrame
    /\ UNCHANGED << player1_data, player2_data, target_score, make_it_take_it,
                    phase >>

\* An exception of the constructor or of simulate_full_game leaves
\* simulate_game (lines 568 and 571) and the handler (lines 103 and 149): the
\* request is answered with a server error
simulate_game_raises ==
    /\ app_pc = "simulate_game"
    /\ \/ phase = "error"
       \/ phase = "ready" /\ pc = "idle" /\ runs = 1 /\ error # ""
    /\ response' = [status |-> 500]
    /\ app_pc' = "done"
    /\ RouteFrame
    /\ UNCHANGED << player1_data, player2_data, target_score, make_it_take_it,
                    phase >>

\* Line 571: the one run of the simulator simulate_game built
simulate_game_run ==
    /\ app_pc = "simulate_game"
    /\ runs = 0
    /\ BeginFullGame

\* The requests the application is sent
FormIds == {StrValue("1"), StrValue("2"), StrValue("3"), StrValue("9")}
FormTargets == {<< "1" >>, << "2" >>, << "x" >>, << "0" >>, << "-", "1" >>}

Forms ==
    {f1 @@ f2 @@ f3 :
        f1 \in {EmptyDict} \cup {[k \in {"player1"} |-> v] : v \in FormIds},
        f2 \in {EmptyDict} \cup {[k \in {"player2"} |-> v] : v \in FormIds},
        f3 \in {EmptyDict} \cup {[k \in {"target_score"} |-> v] : v \in FormTargets}}

JsonIds == {IntValue(1), StrValue("2"), IntValue(3), IntValue(9)}

JsonTargets == {1, 0, -1}

Bodies ==
    {<< >>} \cup
    {<< b1 @@ b2 @@ b3 >> :
        b1 \in {EmptyDict} \cup {[k \in {"player1_id"} |-> v] : v \in JsonIds},
        b2 \in {EmptyDict} \cup {[k \in {"player2_id"} |-> v] : v \in JsonIds},
        b3 \in {EmptyDict} \cup {[k \in {"target_score"} |-> IntValue(v)] :
                                    v \in JsonTargets}}

Requests ==
    {[route |-> "/simulate", method |-> "GET", form |-> EmptyDict]}
    \cup {[route |-> "/simulate", method |-> "POST", form |-> f] : f \in Forms}
    \cup {[route |-> "/api/simulate", method |-> "POST", json |-> b] : b \in Bodies}

\* The application has received a request; no simulator exists
InitApp ==
    /\ request \in Requests
    /\ app_pc = "received"
    /\ external = "unused"
    /\ game_result = << >>
    /\ response = NoResponse
    /\ player1_data = EmptyDict
    /\ player2_data = EmptyDict
    /\ target_score = DefaultTargetScore
    /\ make_it_take_it = TRUE
    /\ phase = "absent"
    /\ error = ""
    /\ player1 = EmptyDict
    /\ player2 = EmptyDict
    /\ score = EmptyDict
    /\ possession = 0
    /\ game_log = << >>
    /\ game_over = FALSE
    /\ winner = WinnerNone
    /\ pc = "idle"
    /\ possession_count = 0
    /\ fatigue = EmptyDict
    /\ alternate_possession = FALSE
    /\ rng_stream = << >>
    /\ rng_pos = 0
    /\ runs = 0
    /\ results = << >>
    /\ steps = 0

NextApp ==
    \/ simulate
    \/ api_simulate
    \/ Construct
    \/ simulate_game_run
    \/ FullGameIteration
    \/ ConcludeFullGame
    \/ simulate_game_return
    \/ simulate_game_raises
    \/ simulate_respond
    \/ api_respond

SpecApp == InitApp /\ [][NextApp]_vars

----------------------------------------------------------------------------
(* Claims C1 - C10 *)

LastEvent(log) == log[Len(log)]
TypeCount(log, type) == Cardinality({k \in 1 .. Len(log) : log[k].type = type})
LastResult == results[Len(results)]
Names == {player1["name"], player2["name"]}
OtherName(name) == IF player1["name"] = name THEN player2["name"] ELSE player1["name"]

\* simulate_full_game has just returned: the match state is the one it left
JustReturned == pc = "idle" /\ runs >= 1 /\ error = "" /\ Len(results) >= 1

\* C1 (as claimed): every returned result either has no winner or has a
\* winner whose final score is at least the target and at least 2 above the
\* other participant's final score.
C1_WinByTwo ==
    \A i \in 1 .. Len(results) :
        target_score >= 1 =>
            \/ results[i].winner = << >>
            \/ LET w == results[i].winner[1]
                   fs == results[i].final_score
               IN  fs[w] >= target_score /\ fs[w] - fs[OtherName(w)] >= 2

\* C2 (as claimed): possession_count never exceeds the cap, and a run that
\* has ended has appended its conclusion and returned a result.
C2_RunReturns ==
    /\ possession_count <= SafetyLimit
    /\ (pc = "idle" /\ runs >= 1) =>
           /\ Len(results) = runs
           /\ LastEvent(game_log).type = "conclusion"

\* C3: with a positive target, a returned result has no winner only when
\* exactly SafetyLimit possessions were played and no score reached the
\* target, and then the log ends with the no-winner conclusion; and a score
\* that reached the target belongs to the returned winner.
C3_DrawOnlyAtCap ==
    (JustReturned /\ target_score >= 1) =>
        LET r == LastResult
        IN  /\ r.winner = << >> =>
                   /\ possession_count = SafetyLimit
                   /\ \A n \in DOMAIN r.final_score : r.final_score[n] < target_score
                   /\ LastEvent(r.game_log) = Event("conclusion", NoWinnerText)
            /\ \A n \in DOMAIN r.final_score :
                   r.final_score[n] >= target_score => r.winner = << n >>

C3_Witness ==
    /\ JustReturned
    /\ target_score >= 1
    /\ LastResult.winner = << >>
    /\ possession_count = SafetyLimit

\* C4: every returned game_log is non-empty, starts with the intro, ends
\* with the conclusion and holds exactly one intro and one conclusion.
C4_LogShape ==
    \A i \in 1 .. Len(results) :
        LET log == results[i].game_log
        IN  /\ Len(log) >= 1
            /\ log[1].type = "intro"
            /\ LastEvent(log).type = "conclusion"
            /\ TypeCount(log, "intro") = 1
            /\ TypeCount(log, "conclusion") = 1

C4_Witness ==
    \E i \in 1 .. Len(results) :
        /\ results[i].winner # << >>
        /\ TypeCount(results[i].game_log, "turnover") >= 1
        /\ TypeCount(results[i].game_log, "shot_missed") >= 1

\* A match of this simulator is finished
MatchFinished == pc = "idle" /\ Len(results) >= 1

\* C5 (as claimed): once a match is finished no further operation changes
\* the score, the possession, the event log or the winner.
C5_FinishedIsFrozen ==
    [][MatchFinished => UNCHANGED << score, possession, game_log, winner >>]_vars

\* C6 (as claimed): game_over becomes true at the step that sets the winner,
\* and it is true when simulate_full_game returns a winner.
C6_GameOverSet ==
    /\ winner.kind # "None" => game_over
    /\ \A i \in 1 .. Len(results) : results[i].winner # << >> => game_over

\* C7 (as claimed): the final score of every returned result holds one
\* entry per participant, also when the two profiles carry the same name.
C7_ScorePerParticipant ==
    \A i \in 1 .. Len(results) : Cardinality(DOMAIN results[i].final_score) = 2

\* C8: all calls of simulate_full_game on one simulator, reading the same
\* draws, return the same game_log and the same final_score.
C8_Reproducible ==
    \A i, j \in 1 .. Len(results) :
        /\ results[i].game_log = results[j].game_log
        /\ results[i].final_score = results[j].final_score

C8_Witness ==
    /\ Len(results) >= 2
    /\ \E n \in DOMAIN results[2].final_score : results[2].final_score[n] >= 1
    /\ Len(results[2].game_log) >= 6

\* The height string does not split into a foot part and an inch part
Unsplittable(player) ==
    "height" \in DOMAIN player /\ Len(Split(Remove(player["height"], "\""), "'")) # 2

\* C9: with a height that cannot be split into a foot and an inch part the
\* constructor ends in an error: no simulator, no event, no possession, no
\* score.
C9_BadHeightFailsConstruction ==
    (Unsplittable(player1_data) \/ Unsplittable(player2_data)) =>
        /\ phase \in {"new", "error"}
        /\ phase = "error" => error = "ValueError"
        /\ game_log = << >>
        /\ possession_count = 0 /\ runs = 0 /\ steps = 0
        /\ score = EmptyDict
        /\ results = << >>

C9_Witness ==
    /\ Get(player1_data, "height", DefaultHeight) = SixFootOne
    /\ phase = "error"
    /\ error = "ValueError"

OnlyNameAndPosition(player) == DOMAIN player = {"name", "position"}

WellFormed(r) ==
    /\ r.game_log[1].type = "intro"
    /\ LastEvent(r.game_log).type = "conclusion"
    /\ DOMAIN r.final_score = Names
    /\ \A n \in Names : r.final_score[n] \in Nat
    /\ r.winner \in {<< >>} \cup {<< n >> : n \in Names}
    /\ r.player1 = player1 /\ r.player2 = player2

\* C10: with two profiles that hold only a name and a position, neither the
\* constructor nor simulate_full_game raises, every run that ended returned
\* a result, and the result is well formed.
C10_BareProfilesComplete ==
    (OnlyNameAndPosition(player1_data) /\ OnlyNameAndPosition(player2_data)) =>
        /\ phase # "error"
        /\ error = ""
        /\ pc = "idle" => Len(results) = runs
        /\ \A i \in 1 .. Len(results) : WellFormed(results[i])

C10_Witness ==
    /\ OnlyNameAndPosition(player1_data) /\ OnlyNameAndPosition(player2_data)
    /\ Len(results) >= 1
    /\ results[1].winner # << >>
    /\ possession_count = SafetyLimit

----------------------------------------------------------------------------
(* Claims C11 - C20 *)

NoPosition(player) == "position" \notin DOMAIN player

\* C11 (as claimed): a profile without a position code is enhanced as the
\* 'Other' position group, and neither its construction nor any possession
\* step of simulate_full_game ends in an error.
C11_PositionOptional ==
    (NoPosition(player1_data) \/ NoPosition(player2_data)) =>
        /\ phase # "error"
        /\ error = ""
        /\ NoPosition(player1_data) => PositionGroup(player1_data) = "Other"
        /\ NoPosition(player2_data) => PositionGroup(player2_data) = "Other"

\* C12: when the external text generation raised, what simulate_game
\* returned holds the log, the final score, the winner and the two enhanced
\* profiles of the simulate_full_game result, and a commentary that is not
\* None, is not empty and holds the text of every intro, turnover, shot and
\* conclusion event of the log.
C12_FallbackCommentary ==
    (game_result # << >> /\ external \in ExternalFailures) =>
        LET r == game_result[1]
            run == results[1]
        IN  /\ r.game_log = run.game_log
            /\ r.final_score = run.final_score
            /\ r.winner = run.winner
            /\ r.player1 = run.player1 /\ r.player2 = run.player2
            /\ r.enhanced_player1 = run.player1
            /\ r.enhanced_player2 = run.player2
            /\ r.enhanced_commentary # << >>
            /\ r.enhanced_commentary[1] # << >>
            /\ \A k \in 1 .. Len(run.game_log) :
                   run.game_log[k].type \in {"intro", "turnover", "shot_made",
                                             "shot_missed", "conclusion"}
                       => Contains(r.enhanced_commentary[1], run.game_log[k].text)

C12_Witness ==
    /\ game_result # << >>
    /\ external = "generate_content raises"
    /\ game_result[1].winner # << >>
    /\ TypeCount(game_result[1].game_log, "turnover") >= 1

\* The match simulate_game ran ended at the cap: every possession was
\* played and no score reached the target
EndedAtCap ==
    /\ game_result # << >>
    /\ possession_count = SafetyLimit
    /\ \A n \in DOMAIN score : score[n] < target_score

\* C13 (as claimed): for a match that ended at the cap the result of
\* simulate_game has no winner, and the page the /simulate route renders
\* from that result shows neither participant as the winner.
C13_DrawIsNotAWin ==
    EndedAtCap =>
        /\ game_result[1].winner = << >>
        /\ (request.route = "/simulate" /\ app_pc = "done" /\ response.status = 200)
               => response.sim_result[1].winner \notin {player1_data, player2_data}

\* The two ids the request asks for, None when the field is missing
RequestedIds ==
    IF request.route = "/simulate"
    THEN << Get(request.form, "player1", NoneValue),
            Get(request.form, "player2", NoneValue) >>
    ELSE IF request.json = << >>
    THEN << NoneValue, NoneValue >>
    ELSE << Get(request.json[1], "player1_id", NoneValue),
            Get(request.json[1], "player2_id", NoneValue) >>

\* The player repository holds `player` under the id
HeldUnder(id, player) ==
    \E i \in 1 .. Len(Players) :
        Players[i] = player /\ Str(Players[i]["id"]) = Str(id)

Known(id) == \E i \in 1 .. Len(Players) : Str(Players[i]["id"]) = Str(id)

\* Both id fields are in the body of the API request
BodyHasIds ==
    /\ request.route = "/api/simulate"
    /\ request.json # << >>
    /\ {"player1_id", "player2_id"} \subseteq DOMAIN request.json[1]

\* C14: a simulator is asked for only with two profiles the repository holds
\* under the requested ids; an API request that names an id the repository
\* does not hold never gets a simulator and is answered 404 'Player not
\* found'; a page request with such an id never gets a simulator either.
C14_NoRunWithMissingPlayer ==
    /\ phase # "absent" =>
           /\ HeldUnder(RequestedIds[1], player1_data)
           /\ HeldUnder(RequestedIds[2], player2_data)
    /\ ~(Known(RequestedIds[1]) /\ Known(RequestedIds[2])) =>
           /\ phase = "absent"
           /\ runs = 0 /\ game_log = << >> /\ game_result = << >>
           /\ (BodyHasIds /\ app_pc = "done") =>
                  response = Json(404, [error |-> "Player not found"])

C14_Witness ==
    /\ BodyHasIds
    /\ Known(RequestedIds[1]) /\ ~Known(RequestedIds[2])
    /\ app_pc = "done"
    /\ response.status = 404

\* C15: no operation changes a raw profile it was handed (the constructor,
\* which enhances it and computes the derived stats, included), and once the
\* simulator is built no operation changes an enhanced profile.
C15_ProfilesUntouched ==
    [][/\ player1_data' = player1_data
       /\ player2_data' = player2_data
       /\ phase = "ready" => (player1' = player1 /\ player2' = player2)]_vars

C15_Witness ==
    /\ phase = "ready"
    /\ "scoring_efficiency" \in DOMAIN player1
    /\ "scoring_efficiency" \notin DOMAIN player1_data
    /\ "height_inches" \notin DOMAIN player2_data
    /\ Len(results) >= 1
    /\ possession_count >= 2

\* The position groups as the spec gives them
GroupOfSpec(position) ==
    CASE position \in {<< "C" >>, << "P", "F" >>} -> "Big"
      [] position \in {<< "P", "G" >>, << "S", "G" >>} -> "Guard"
      [] OTHER -> "Other"

\* C16: for a profile with one of the five position codes, the enhanced
\* profile carries the estimates of the spec's group for that code, computed
\* from the profile's rebounds (the group's default 5, 3 or 4 when absent)
\* and assists (3 when absent), and its two rebound shares sum to that
\* rebounds value.
C16_PositionGroups ==
    (phase = "ready" /\ player1_data["position"] \in Positions) =>
        LET group == GroupOfSpec(player1_data["position"])
            rebounds ==
                Get(player1_data, "rebounds",
                    CASE group = "Big" -> Num(5)
                      [] group = "Guard" -> Num(3)
                      [] OTHER -> Num(4))
            assists == Get(player1_data, "assists", Num(3))
            share == CASE group = "Big" -> 35 [] group = "Guard" -> 20 [] OTHER -> 25
        IN  /\ PositionGroup(player1_data) = group
            /\ player1["estimated_blocks"] * 10 =
                   CASE group = "Big" -> Num(12) + rebounds
                     [] group = "Guard" -> Num(3)
                     [] OTHER -> Num(7)
            /\ player1["estimated_steals"] * 10 =
                   CASE group = "Big" -> Num(8)
                     [] group = "Guard" -> Num(12) + assists
                     [] OTHER -> Num(10)
            /\ player1["offensive_rebounds"] * 100 = rebounds * share
            /\ player1["defensive_rebounds"] * 100 = rebounds * (100 - share)
            /\ player1["offensive_rebounds"] + player1["defensive_rebounds"] = rebounds

C16_Witness ==
    /\ phase = "ready"
    /\ player1_data["position"] = << "P", "F" >>
    /\ "rebounds" \notin DOMAIN player1_data
    /\ player1["offensive_rebounds"] = Dec(175, 100)
    /\ player1["defensive_rebounds"] = Dec(325, 100)

OtherSlot(slot) == 3 - slot

\* The events a step has appended to the log
NewEvents == SubSeq(game_log', Len(game_log) + 1, Len(game_log'))

\* The step keeps the log and appends an event of this type
Appends(type) ==
    /\ Len(game_log') > Len(game_log)
    /\ SubSeq(game_log', 1, Len(game_log)) = game_log
    /\ \E k \in 1 .. Len(NewEvents) : NewEvents[k].type = type

\* The step is a pass of the loop of simulate_full_game that leaves the
\* match going
PossessionPlayedOn ==
    /\ pc = "loop" /\ pc' = "loop"
    /\ possession_count' = possession_count + 1

\* C17 (as claimed): every possession of simulate_full_game that does not
\* end the match adds 0.5 to the fatigue of the player on offense and 0.3 to
\* the fatigue of the player on defense, a turnover included.
C17_FatigueEveryPossession ==
    [][PossessionPlayedOn =>
           LET o == Player(possession)["name"]
               d == Player(OtherSlot(possession))["name"]
           IN  /\ fatigue'[o] = fatigue[o] + Dec(5, 10)
               /\ fatigue'[d] = fatigue[d] + Dec(3, 10)]_vars

\* C18 (as claimed): a possession of simulate_full_game with a missed shot
\* logs a rebound event after the miss, and the ball goes to the shooter or
\* to the defender as the rebound decides.
C18_ReboundAfterMiss ==
    [][(pc = "loop" /\ Appends("shot_missed")) =>
           /\ LastEvent(game_log').type = "rebound"
           /\ possession' \in {possession, OtherSlot(possession)}]_vars

----------------------------------------------------------------------------
(* Claims C21 - C30 *)

\* The step is a possession: a pass of the loop of simulate_full_game or a
\* call of _simulate_possession with the ball in a player's hands
PossessionStep ==
    /\ phase = "ready"
    /\ possession # 0
    /\ \/ pc = "loop" /\ possession_count' = possession_count + 1
       \/ pc = "idle" /\ steps' = steps + 1 /\ ~Appends("intro")

\* The points of the shot a shot event describes: 1 inside, 2 outside
PointsOf(event) == IF event.text[3] = "<inside move>" THEN 1 ELSE 2

\* The shot_made event among the events the step has appended
MadeEvent == NewEvents[CHOOSE k \in 1 .. Len(NewEvents) : NewEvents[k].type = "shot_made"]

\* C21 (as claimed): in simulate_full_game and in _simulate_possession a
\* possession changes the score only with a made shot; the made shot adds 1
\* (inside) or 2 (outside) to the score of the shooter and leaves the score
\* of the other participant as it was; scores are non-negative integers
\* that no possession decreases.
C21_ScoreOnlyOnMadeShot ==
    [][PossessionStep =>
           LET shooter == Player(possession)["name"]
               other == Player(OtherSlot(possession))["name"]
           IN  /\ \A n \in DOMAIN score : score'[n] \in Nat /\ score'[n] >= score[n]
               /\ score' # score => Appends("shot_made")
               /\ Appends("shot_made") =>
                      /\ score'[shooter] = score[shooter] + PointsOf(MadeEvent)
                      /\ score'[other] = score[other]]_vars

\* The event types of the program
EventKinds ==
    {"intro", "check_ball", "turnover", "block", "shot_made", "shot_missed",
     "rebound", "conclusion"}

\* The event types that tell how a possession ended
OutcomeKinds == {"turnover", "block", "shot_made", "shot_missed"}

\* The log is an intro, then a check_ball and one outcome per possession
PossessionPairs(log, n) ==
    /\ Len(log) >= 2 * n + 1
    /\ log[1].type = "intro"
    /\ \A j \in 1 .. n : /\ log[2 * j].type = "check_ball"
                         /\ log[2 * j + 1].type \in OutcomeKinds

\* A pass of the loop of simulate_full_game that runs to its end
PossessionCompleted ==
    /\ pc = "loop" /\ pc' \in {"loop", "conclude"}
    /\ possession_count' = possession_count + 1

C23_BlockedShot ==
    [][(pc = "idle" /\ Appends("block")) =>
           /\ Len(NewEvents) = 1
           /\ SubSeq(game_log', 1, Len(game_log)) = game_log
           /\ NewEvents[1].text[1] = "<inside block>"
           /\ NewEvents[1].text[2] = Player(possession)["name"]
           /\ score' = score
           /\ winner' = winner
           /\ game_over' = game_over
           /\ Player(possession') \in {Player(possession),
                                      Player(OtherSlot(possession))}]_vars

\* Two blocks in a row: the first left the ball with the blocker, who shot
\* next, and the second has left it with the shooter
C23_Witness ==
    /\ Len(game_log) = 3
    /\ game_log[2].type = "block"
    /\ game_log[3].type = "block"
    /\ game_log[2].text[3] = game_log[3].text[2]
    /\ game_log[3].text[2] # game_log[3].text[3]
    /\ possession # 0
    /\ Player(possession)["name"] = game_log[3].text[2]

InUnit(p) == 0 <= p /\ p <= Scale

ShotTypes == {"inside", "outside"}

\* C24 (as claimed): every probability a random draw is compared with lies
\* in [0, 1]: the turnover chance, the block chance, the chance of the shot
\* after the clutch, stamina and fatigue adjustments and the rebound chance,
\* in _simulate_possession and in simulate_full_game.
C24_ProbabilitiesInUnitRange ==
    (phase = "ready" /\ possession # 0) =>
        LET o == Player(possession)
            d == Player(Defender(possession))
        IN  /\ pc = "idle" =>
                   /\ InUnit(possession_turnover_chance(o, d))
                   /\ \A st \in ShotTypes :
                          /\ InUnit(block_chance(o, d, st))
                          /\ InUnit(possession_success_prob(o, d, st))
                          /\ rebound_parts(o, d, st).den # 0 =>
                                 InUnit(off_rebound_chance(o, d, st))
            /\ pc = "loop" =>
                   /\ InUnit(full_game_turnover_chance(o))
                   /\ "position" \in DOMAIN o => InUnit(shot_type_odds(o))
                   /\ \A st \in ShotTypes : InUnit(full_game_success_prob(o, d, st))

\* C25 (as claimed): for the two enhanced profiles of a simulator, either
\* of them shooting, and both shot types, _get_shot_success_probability
\* yields a value in [0.1, 0.9] and the offensive-rebound chance computed
\* after a miss is a value in [0.2, 0.8].
C25_ClampedProbabilities ==
    phase = "ready" =>
        \A offense \in {1, 2}, st \in ShotTypes :
            LET o == Player(offense)
                d == Player(Defender(offense))
                p == _get_shot_success_probability(o, d, st)
            IN  /\ Dec(1, 10) <= p /\ p <= Dec(9, 10)
                /\ rebound_parts(o, d, st).den # 0
                /\ Dec(2, 10) <= off_rebound_chance(o, d, st)
                /\ off_rebound_chance(o, d, st) <= Dec(8, 10)

\* C26 (as claimed): when simulate_full_game attempts a shot while the
\* scores differ by at most 2 and the higher score is within 3 of the target,
\* the chance the shot is drawn against is the chance outside such a
\* situation raised by the clutch_rating of the shooter; outside the
\* situation it is not raised.
C26_ClutchBoost ==
    (phase = "ready" /\ pc = "loop" /\ LoopGuard) =>
        \A st \in ShotTypes :
            LET o == Player(possession)
                d == Player(Defender(possession))
                plain == Mul(_get_shot_success_probability(o, d, st),
                             fatigue_factor(o))
                used == full_game_success_prob(o, d, st)
            IN  IF ClutchSituation(o["name"], d["name"])
                THEN used = Mul(plain, Scale + Times(Get(o, "clutch_rating",
                                                         Dec(5, 10)), 2, 10))
                ELSE used = plain

\* C27: the fatigue of each participant is 0 when a call of
\* simulate_full_game starts its first possession, is never negative, and
\* is not decreased by any possession of the match.
C27_FatigueMonotone ==
    /\ []((pc = "loop" /\ possession_count = 0) =>
              \A n \in DOMAIN fatigue : fatigue[n] = 0)
    /\ [](pc \in {"loop", "conclude"} => \A n \in DOMAIN fatigue : fatigue[n] >= 0)
    /\ [][pc = "loop" =>
              /\ DOMAIN fatigue' = DOMAIN fatigue
              /\ \A n \in DOMAIN fatigue : fatigue'[n] >= fatigue[n]]_vars

\* A second call starts from 0 after the first call has tired the players
C27_Witness ==
    /\ runs = 2
    /\ pc = "loop"
    /\ possession_count = 0
    /\ Len(results) = 1
    /\ TypeCount(results[1].game_log, "shot_missed") >= 1
    /\ DOMAIN fatigue = Names
    /\ \A n \in Names : fatigue[n] = 0

\* C28 (as claimed): with a positive target, a returned result with a
\* winner has the winner's final score at the target or one above it and
\* the other participant's final score strictly below the target.
C28_WinnerJustOverTarget ==
    \A i \in 1 .. Len(results) :
        (target_score > 0 /\ results[i].winner # << >>) =>
            LET w == results[i].winner[1]
                fs == results[i].final_score
            IN  /\ fs[w] \in {target_score, target_score + 1}
                /\ fs[OtherName(w)] < target_score

\* The positions of the check_ball events of a log
CheckBalls(log) == {k \in 1 .. Len(log) : log[k].type = "check_ball"}

C30_WinningShot ==
    /\ []((JustReturned /\ LastResult.winner # << >>) =>
              LET log == LastResult.game_log
              IN  /\ Len(log) >= 4
                  /\ log[Len(log)].type = "conclusion"
                  /\ log[Len(log) - 1].type = "shot_made"
                  /\ log[Len(log) - 1].text[1] = LastResult.winner[1]
                  /\ log[Len(log) - 2].text[1] = LastResult.winner[1]
                  /\ possession # 0
                  /\ Player(possession)["name"] = LastResult.winner[1]
                  /\ winner.slot = possession)
    /\ [][(pc = "loop" /\ winner.kind = "None" /\ winner'.kind # "None") =>
              /\ fatigue' = fatigue
              /\ possession' = possession
              /\ winner'.slot = possession
              /\ LastEvent(game_log').type = "shot_made"
              /\ pc' = "conclude"]_vars

\* A match of several possessions that the player without the tip has won
C30_Witness ==
    /\ JustReturned
    /\ LastResult.winner # << >>
    /\ possession_count >= 3
    /\ player1["name"] # player2["name"]
    /\ LastResult.game_log[2].text[1] # LastResult.winner[1]
    /\ \E n \in DOMAIN fatigue : fatigue[n] > 0

----------------------------------------------------------------------------
(* Claim C31 *)

\* The target the request carries, as the handler reads it
RequestedTarget ==
    IF request.route = "/simulate"
    THEN CASE Get(request.form, "target_score", << >>) = << "0" >> -> 0
           [] Get(request.form, "target_score", << >>) = << "-", "1" >> -> -1
           [] Get(request.form, "target_score", << >>) = << "1" >> -> 1
           [] Get(request.form, "target_score", << >>) = << "2" >> -> 2
           [] OTHER -> DefaultTargetScore
    ELSE Get(request.json[1], "target_score", IntValue(DefaultTargetScore)).v

\* C31: a target of 0 or less reaches simulate_game as the request gave it,
\* on both routes; simulate_full_game then plays no possession, logs the
\* intro and the no-winner conclusion only, and returns no winner and a
\* score of 0 for both players, with the possession cap not reached.
C31_NoMatchBelowOne ==
    /\ [][(app_pc = "received" /\ app_pc' = "simulate_game") =>
              target_score' = RequestedTarget]_vars
    /\ []((app_pc \in {"simulate_game", "returned", "done"}
           /\ target_score <= 0) =>
              /\ possession_count = 0
              /\ possession_count < SafetyLimit
              /\ \A k \in 1 .. Len(game_log) : game_log[k].type \in {"intro", "conclusion"}
              /\ \A i \in 1 .. Len(results) :
                     /\ results[i].winner = << >>
                     /\ DOMAIN results[i].final_score = Names
                     /\ \A n \in Names : results[i].final_score[n] = 0
                     /\ Len(results[i].game_log) = 2
                     /\ results[i].game_log[1].type = "intro"
                     /\ results[i].game_log[2] = Event("conclusion", NoWinnerText)
              /\ game_result # << >> =>
                     /\ game_result[1].winner = << >>
                     /\ game_result[1].game_log = results[1].game_log
                     /\ game_result[1].final_score = results[1].final_score)

\* Both routes have answered a request for a match to a target below 1
C31_Witness ==
    /\ app_pc = "done"
    /\ response.status = 200
    /\ target_score = -1
    /\ RequestedTarget = -1
    /\ request.route = "/api/simulate"
    /\ game_result # << >>
    /\ game_result[1].winner = << >>
    /\ Len(game_result[1].game_log) = 2

====
